---------------------------- MODULE Spec2Model ----------------------------
(***************************************************************************)
(* FA2 archive packer (src/FA2_pack.py): pack_fa2 lists the regular files  *)
(* of a directory, sorts them by name, concatenates their 16-byte padded   *)
(* contents after a 16-byte header and appends a table of 32-byte index    *)
(* records.                                                                *)
(*                                                                         *)
(* Python integers are unbounded while struct.pack("<I", v) accepts only   *)
(* 0 .. 2^32-1.  Sizes and offsets are therefore kept as two-limb numbers  *)
(* <<hi, lo>> of value hi * 65536 + lo, which reach past 2^32.  A byte     *)
(* string is a record [b, gap]: the bytes b that are tracked one by one,   *)
(* followed by gap further bytes whose values are not tracked (the body    *)
(* of a multi-gigabyte file).  A file name is a sequence of code points.   *)
(*                                                                         *)
(* open(output_file, "wb") gives a BufferedWriter: out.write only fills    *)
(* its buffer while the bytes fit; a write that does not fit flushes the   *)
(* buffer and, when larger than the buffer, goes to the path itself; the   *)
(* rest reaches the path when the with block closes the file.  The path    *)
(* takes bytes up to a limit (a file size limit, the room on the device);  *)
(* the write or flush that would pass it leaves the bytes up to the limit  *)
(* and raises OSError.  The output path may lie inside the directory that  *)
(* is packed; the archive is then one of the directory's files from the    *)
(* open on.                                                                *)
(***************************************************************************)
EXTENDS Integers, Sequences, FiniteSets

VARIABLES
    fs,            \* the directory: name -> [isfile, content]
    inside,        \* whether output_file is a path inside the directory
    limit,         \* the most bytes the output path can hold, or Unlimited
    dest,          \* what the output path holds on disk
    buf,           \* bytes out.write accepted that are not yet on disk
    fs0, dest0,    \* the directory and the output path when the call began
    prev_fs, prev_out,  \* the directory given to the previous call, the path after it
    prev_ok,       \* whether the previous call wrote its archive
    runs,          \* number of calls of pack_fa2 so far
    pc, err,       \* position in pack_fa2; the exception raised and where
    files, i, file_entries, file_data, data_offset,
    file_count, index_offset, header, index_table

disk == <<fs, dest, buf>>

calls == <<inside, limit, fs0, dest0, prev_fs, prev_out, prev_ok, runs>>

locals == <<files, i, file_entries, file_data, data_offset,
            file_count, index_offset, header, index_table>>

vars == <<disk, calls, pc, err, locals>>

(* ---------------- bounds of the model ---------------- *)
MaxEntries == 2
MaxRuns == 2

(* ---------------- unbounded integers as two limbs ---------------- *)
Base == 256 * 256

Wide(n) == <<n \div Base, n % Base>>

WAdd(a, b) == LET lo == a[2] + b[2] IN <<a[1] + b[1] + (lo \div Base), lo % Base>>

WSub(a, b) ==
    IF a[2] >= b[2] THEN <<a[1] - b[1], a[2] - b[2]>>
    ELSE <<a[1] - b[1] - 1, a[2] + Base - b[2]>>

WLeq(a, b) == a[1] < b[1] \/ (a[1] = b[1] /\ a[2] <= b[2])

WInt(a) == a[1] * Base + a[2]

(* ---------------- byte strings ---------------- *)
Bytes(s) == [b |-> s, gap |-> Wide(0)]

BLen(x) == WAdd(Wide(Len(x.b)), x.gap)

BCat(x, y) ==
    IF x.gap = Wide(0) THEN [b |-> x.b \o y.b, gap |-> y.gap]
    ELSE [b |-> x.b, gap |-> WAdd(x.gap, BLen(y))]

\* The first n bytes of x, and x without its first n bytes (n a two-limb number).
Take(x, n) ==
    IF WLeq(BLen(x), n) THEN x
    ELSE IF WLeq(n, Wide(Len(x.b))) THEN Bytes(SubSeq(x.b, 1, WInt(n)))
    ELSE [b |-> x.b, gap |-> WSub(n, Wide(Len(x.b)))]

Drop(x, n) ==
    IF WLeq(BLen(x), n) THEN Bytes(<<>>)
    ELSE IF WLeq(n, Wide(Len(x.b)))
         THEN [b |-> SubSeq(x.b, WInt(n) + 1, Len(x.b)), gap |-> x.gap]
    ELSE [b |-> <<>>, gap |-> WSub(BLen(x), n)]

Zeros(n) == [k \in 1..n |-> 0]

(* ---------------- align16 ---------------- *)
\* Variant of align16: (size & ~0xF) + 16, which moves a multiple of 16 on.
align16Next(size) == WAdd(<<size[1], size[2] - (size[2] % 16)>>, Wide(16))

align16(size) ==
    LET s == WAdd(size, Wide(15)) IN <<s[1], s[2] - (s[2] % 16)>>

\* Variant of pad_len: 16 - size % 16, which pads an aligned entry by 16.
PadLenAlways(orig_size) == 16 - (orig_size[2] % 16)

PadLen(orig_size) == WInt(WSub(align16(orig_size), orig_size))

(* ---------------- struct.pack("<I", v) ---------------- *)
\* Variant of struct.pack's range check: none, the value wraps modulo 2^32.
PackU32OkWrap(v) == TRUE

PackU32Ok(v) == v[1] < Base

PackU32(v) == <<v[2] % 256, v[2] \div 256, v[1] % 256, (v[1] \div 256) % 256>>

Signature == Wide(3293510)

(* ---------------- file names: str comparison and str.encode("utf-8") ------ *)
RECURSIVE StrLess(_, _)
StrLess(a, b) ==
    IF b = <<>> THEN FALSE
    ELSE IF a = <<>> THEN TRUE
    ELSE IF Head(a) # Head(b) THEN Head(a) < Head(b)
    ELSE StrLess(Tail(a), Tail(b))

IsSurrogate(c) == c >= 55296 /\ c <= 57343

Encodable(name) == \A k \in 1..Len(name) : ~IsSurrogate(name[k])

\* Variant of the encoding: code points below 256 as one byte (Latin-1).
Utf8CharLatin1(c) ==
    IF c < 256 THEN <<c>>
    ELSE IF c < 2048 THEN <<192 + (c \div 64), 128 + (c % 64)>>
    ELSE <<224 + (c \div 4096), 128 + ((c \div 64) % 64), 128 + (c % 64)>>

Utf8Char(c) ==
    IF c < 128 THEN <<c>>
    ELSE IF c < 2048 THEN <<192 + (c \div 64), 128 + (c % 64)>>
    ELSE IF c < 65536
         THEN <<224 + (c \div 4096), 128 + ((c \div 64) % 64), 128 + (c % 64)>>
    ELSE <<240 + (c \div 262144), 128 + ((c \div 4096) % 64),
           128 + ((c \div 64) % 64), 128 + (c % 64)>>

RECURSIVE Utf8Encode(_)
Utf8Encode(name) ==
    IF name = <<>> THEN <<>> ELSE Utf8Char(Head(name)) \o Utf8Encode(Tail(name))

(* ---------------- list.sort() ---------------- *)
RECURSIVE Insert(_, _)
Insert(x, s) ==
    IF s = <<>> THEN <<x>>
    ELSE IF StrLess(Head(s), x) THEN <<Head(s)>> \o Insert(x, Tail(s))
    ELSE <<x>> \o s

\* Variant of files.sort(): the listing order is kept.
SortNone(s) == s

RECURSIVE Sort(_)
Sort(s) == IF s = <<>> THEN <<>> ELSE Insert(Head(s), Sort(Tail(s)))

(* ---------------- os.listdir and the isfile filter ---------------- *)
Listings(dir) ==
    LET n == Cardinality(DOMAIN dir)
    IN {l \in [1..n -> DOMAIN dir] : \A j, k \in 1..n : j # k => l[j] # l[k]}

RECURSIVE RegularFiles(_, _)
RegularFiles(dir, l) ==
    IF l = <<>> THEN <<>>
    ELSE IF dir[Head(l)].isfile THEN <<Head(l)>> \o RegularFiles(dir, Tail(l))
    ELSE RegularFiles(dir, Tail(l))

(* ---------------- one index record ---------------- *)
Ljust15(s) == IF Len(s) < 15 THEN s \o Zeros(15 - Len(s)) ELSE s

\* Variants of the name field: no truncation; truncation to 15 bytes with no
\* null terminator.
NameFieldNoTrunc(fname) == Ljust15(Utf8Encode(fname) \o <<0>>)

NameFieldTrunc15(fname) ==
    LET name_bytes == Utf8Encode(fname)
    IN Ljust15(IF Len(name_bytes) >= 15
               THEN SubSeq(name_bytes, 1, 15)
               ELSE name_bytes \o <<0>>)

NameField(fname) ==
    LET name_bytes == Utf8Encode(fname)
    IN Ljust15(IF Len(name_bytes) >= 15
               THEN SubSeq(name_bytes, 1, 14) \o <<0>>
               ELSE name_bytes \o <<0>>)

\* Variant of the record: the data offset written where the stored size goes.
IndexRecordOffset(e) ==
    NameField(e[1]) \o Zeros(9) \o PackU32(e[2]) \o PackU32(e[4])

IndexRecord(e) == NameField(e[1]) \o Zeros(9) \o PackU32(e[2]) \o PackU32(e[3])

IndexRecordOk(e) == Encodable(e[1]) /\ PackU32Ok(e[2]) /\ PackU32Ok(e[3])

RECURSIVE IndexTable(_)
IndexTable(entries) ==
    IF entries = <<>> THEN <<>>
    ELSE IndexRecord(Head(entries)) \o IndexTable(Tail(entries))

IndexError(entries) ==
    LET bad == {k \in 1..Len(entries) : ~IndexRecordOk(entries[k])}
        first == CHOOSE k \in bad : \A j \in bad : k <= j
    IN IF Encodable(entries[first][1]) THEN "struct.error" ELSE "UnicodeEncodeError"

(* ---------------- the header ---------------- *)
\* Variant of the header: file count and index offset in each other's place.
HeaderSwapped(ioff, count) ==
    PackU32(Signature) \o PackU32(Wide(0)) \o PackU32(count) \o PackU32(ioff)

Header(ioff, count) ==
    PackU32(Signature) \o PackU32(Wide(0)) \o PackU32(ioff) \o PackU32(count)

HeaderOk(ioff, count) == PackU32Ok(ioff) /\ PackU32Ok(count)

(* ---------------- the output path ---------------- *)
NoFile == [exists |-> FALSE, data |-> Bytes(<<>>)]

File(x) == [exists |-> TRUE, data |-> x]

(* ---------------- inputs ---------------- *)
NameA == <<97, 46, 116, 120, 116>>                 \* "a.txt"
NameB == <<98, 46, 100, 97, 116>>                  \* "b.dat"
Name14 == <<26085, 233>> \o [k \in 1..9 |-> 96 + k] \* U+65E5 U+00E9 "abcdefghi": 14 bytes
Prefix13 == [k \in 1..13 |-> 122]                 \* "zzzzzzzzzzzzz"
Name15 == Prefix13 \o <<233>>                      \* Prefix13 + U+00E9: 15 bytes
Name16 == Prefix13 \o <<234, 120>>                 \* Prefix13 + U+00EA + "x": 16 bytes
NameS == <<56448>>                                 \* U+DC80: an undecodable name
NameSub == <<115, 117, 98>>                        \* "sub", a subdirectory
OutName == <<122, 122, 46, 102, 97, 50>>           \* "zz.fa2", the output when inside

FileNames == {NameA, NameB, Name14, Name15, Name16, NameS}

Hi == Bytes(<<104, 105>>)
Twenty == Bytes([k \in 1..20 |-> k % 4])
Huge(hi, lo) == [b |-> <<>>, gap |-> <<hi, lo>>]

\* Sizes around the writer's buffer: a file of 4096 bytes is as large as it
\* and does not fit it after the 16-byte header, one of 5000 bytes is larger.
\* A file of 0x7ffff000 + 112 bytes is more than one write(2) takes and
\* leaves less than a buffer behind.
Mid(n) == [b |-> <<>>, gap |-> Wide(n)]

ContentsOf(n) ==
    IF n = NameA THEN {Bytes(<<>>), Hi, Twenty, Mid(4096)}
    ELSE IF n = NameB
         THEN {Twenty, Mid(5000), Huge(32767, 61552), Huge(Base - 1, Base - 32), Huge(Base, 0)}
    ELSE IF n \in {Name14, Name15} THEN {Twenty}
    ELSE {Hi}

Entries(n) ==
    IF n = NameSub THEN {[isfile |-> FALSE, content |-> Bytes(<<>>)]}
    ELSE [isfile : {TRUE}, content : ContentsOf(n)]

Directories ==
    LET names == {T \in SUBSET (FileNames \cup {NameSub}) : Cardinality(T) <= MaxEntries}
    IN UNION {{d \in [S -> UNION {Entries(n) : n \in S}] :
                  \A n \in S : d[n] \in Entries(n)} : S \in names}

\* No limit on the output path, or the number of bytes it can hold.
Unlimited == <<-1, -1>>

Limits == {Unlimited, Wide(9), Wide(1016)}

(* ---------------- the output path and its buffered writer ---------------- *)
BufferSize == 4096

NoErr == [kind |-> "", at |-> ""]

\* The directory after the output path came to hold f.
WithOutput(dir, f) ==
    IF inside
    THEN [n \in DOMAIN dir \cup {OutName} |->
             IF n = OutName THEN [isfile |-> TRUE, content |-> f.data] ELSE dir[n]]
    ELSE dir

SetDest(f) ==
    /\ dest' = f
    /\ fs' = WithOutput(fs, f)

\* Whether the path can hold x, and what it holds of x when written to the limit.
Within(x) == limit = Unlimited \/ WLeq(BLen(x), limit)

Cap(x) == IF limit = Unlimited THEN x ELSE Take(x, limit)

FitsBuffer(chunk) == WLeq(BLen(BCat(buf, chunk)), Wide(BufferSize))

\* The most bytes one write(2) on the path takes: 0x7ffff000.
RawMax == <<32767, 61440>>

WMin(a, b) == IF WLeq(a, b) THEN a ELSE b

\* The bytes the next write(2) at the end of d can take.
Room(d) == IF limit = Unlimited THEN RawMax ELSE WMin(RawMax, WSub(limit, BLen(d)))

\* The buffer is empty and rest is to be written: while more than a buffer
\* of it is left, one write(2) puts on the path what it takes of it, and
\* fails when it can take nothing; what is left then is buffered.
RECURSIVE WriteThrough(_, _)
WriteThrough(d, rest) ==
    IF WLeq(BLen(rest), Wide(BufferSize))
    THEN [disk |-> d, buf |-> rest, ok |-> TRUE, at |-> pc]
    ELSE LET n == WMin(BLen(rest), Room(d))
         IN IF n = Wide(0)
            THEN [disk |-> d, buf |-> Bytes(<<>>), ok |-> FALSE, at |-> pc]
            ELSE WriteThrough(BCat(d, Take(rest, n)), Drop(rest, n))

\* out.write(chunk) of the BufferedWriter: what the path and the buffer hold
\* afterwards and whether the call returned.  A chunk that fits is buffered.
\* Else the buffer is flushed and the chunk written through.  When the flush
\* fails the buffer keeps its bytes, the with block's close fails on them in
\* turn and its exception is the one that leaves pack_fa2 (at "close").
BufferedWrite(chunk) ==
    LET flushed == BCat(dest.data, buf)
    IN IF FitsBuffer(chunk)
       THEN [disk |-> dest.data, buf |-> BCat(buf, chunk), ok |-> TRUE, at |-> pc]
       ELSE IF ~Within(flushed)
       THEN [disk |-> Cap(flushed), buf |-> Bytes(<<>>), ok |-> FALSE, at |-> "close"]
       ELSE WriteThrough(flushed, chunk)

Chunk ==
    IF pc = "write_header" THEN Bytes(header)
    ELSE IF pc = "write_data" THEN file_data
    ELSE Bytes(index_table)

\* out.write(Chunk) returns.
WriteReturns ==
    LET w == BufferedWrite(Chunk)
    IN /\ w.ok
       /\ buf' = w.buf
       /\ IF w.disk = dest.data THEN UNCHANGED <<fs, dest>> ELSE SetDest(File(w.disk))

(* ---------------- pack_fa2 ---------------- *)
Frame ==
    /\ files = <<>>
    /\ i = 1
    /\ file_entries = <<>>
    /\ file_data = Bytes(<<>>)
    /\ data_offset = Wide(0)
    /\ file_count = Wide(0)
    /\ index_offset = Wide(0)
    /\ header = <<>>
    /\ index_table = <<>>

Init ==
    /\ fs \in Directories
    /\ inside \in BOOLEAN
    /\ limit \in Limits
    /\ dest = NoFile
    /\ buf = Bytes(<<>>)
    /\ fs0 = fs
    /\ dest0 = dest
    /\ prev_fs = fs
    /\ prev_out = NoFile
    /\ prev_ok = FALSE
    /\ runs = 1
    /\ pc = "start"
    /\ err = NoErr
    /\ Frame

Raise(kind) ==
    /\ pc' = "raised"
    /\ err' = [kind |-> kind, at |-> pc]

ListDir ==
    /\ pc = "start"
    /\ \E l \in Listings(fs) :
          files' = Sort(RegularFiles(fs, l))
    /\ file_entries' = <<>>
    /\ file_data' = Bytes(<<>>)
    /\ data_offset' = Wide(16)
    /\ i' = 1
    /\ pc' = "loop"
    /\ UNCHANGED <<disk, calls, err, file_count, index_offset, header, index_table>>

ListFail ==
    /\ pc = "start"
    /\ Raise("OSError")
    /\ UNCHANGED <<disk, calls, locals>>

ReadFile ==
    /\ pc = "loop"
    /\ i <= Len(files)
    /\ LET fname == files[i]
           data == fs[fname].content
           orig_size == BLen(data)
           stored_size == orig_size
           pad_len == PadLen(orig_size)
       IN /\ file_entries' =
                Append(file_entries, <<fname, orig_size, stored_size, data_offset>>)
          /\ file_data' =
                IF pad_len # 0
                THEN BCat(BCat(file_data, data), Bytes(Zeros(pad_len)))
                ELSE BCat(file_data, data)
          /\ data_offset' = WAdd(data_offset, align16(orig_size))
    /\ i' = i + 1
    /\ UNCHANGED <<disk, calls, pc, err, files,
                   file_count, index_offset, header, index_table>>

\* open or f.read() fails, or the content does not fit in memory.
ReadFail ==
    /\ pc = "loop"
    /\ i <= Len(files)
    /\ \E kind \in {"OSError", "MemoryError"} : Raise(kind)
    /\ UNCHANGED <<disk, calls, locals>>

BuildHeader ==
    /\ pc = "loop"
    /\ i > Len(files)
    /\ file_count' = Wide(Len(file_entries))
    /\ index_offset' = data_offset
    /\ IF HeaderOk(index_offset', file_count')
       THEN /\ header' = Header(index_offset', file_count')
            /\ pc' = "index"
            /\ err' = err
       ELSE /\ header' = header
            /\ Raise("struct.error")
    /\ UNCHANGED <<disk, calls, files, i, file_entries, file_data, data_offset,
                   index_table>>

BuildIndex ==
    /\ pc = "index"
    /\ IF \A k \in 1..Len(file_entries) : IndexRecordOk(file_entries[k])
       THEN /\ index_table' = IndexTable(file_entries)
            /\ pc' = "open"
            /\ err' = err
       ELSE /\ index_table' = index_table
            /\ Raise(IndexError(file_entries))
    /\ UNCHANGED <<disk, calls, files, i, file_entries, file_data, data_offset,
                   file_count, index_offset, header>>

OpenOutput ==
    /\ pc = "open"
    /\ SetDest(File(Bytes(<<>>)))
    /\ buf' = Bytes(<<>>)
    /\ pc' = "write_header"
    /\ UNCHANGED <<calls, err, locals>>

OpenFail ==
    /\ pc = "open"
    /\ Raise("OSError")
    /\ UNCHANGED <<disk, calls, locals>>

WriteHeader ==
    /\ pc = "write_header"
    /\ WriteReturns
    /\ pc' = "write_data"
    /\ UNCHANGED <<calls, err, locals>>

WriteData ==
    /\ pc = "write_data"
    /\ WriteReturns
    /\ pc' = "write_index"
    /\ UNCHANGED <<calls, err, locals>>

WriteIndex ==
    /\ pc = "write_index"
    /\ WriteReturns
    /\ pc' = "close"
    /\ UNCHANGED <<calls, err, locals>>

\* out.write raises: the path keeps the bytes it took, and the with block
\* closes the file, whose buffer is lost.
WriteFail ==
    /\ pc \in {"write_header", "write_data", "write_index"}
    /\ LET w == BufferedWrite(Chunk)
       IN /\ ~w.ok
          /\ SetDest(File(w.disk))
          /\ pc' = "raised"
          /\ err' = [kind |-> "OSError", at |-> w.at]
    /\ buf' = Bytes(<<>>)
    /\ UNCHANGED <<calls, locals>>

\* The with block ends: the buffer is flushed and the file closed.
Close ==
    /\ pc = "close"
    /\ Within(BCat(dest.data, buf))
    /\ SetDest(File(BCat(dest.data, buf)))
    /\ buf' = Bytes(<<>>)
    /\ pc' = "print"
    /\ UNCHANGED <<calls, err, locals>>

\* The flush passes the limit and leaves the bytes up to it, or the flush
\* succeeds and closing the file raises.
CloseFail ==
    /\ pc = "close"
    /\ SetDest(File(Cap(BCat(dest.data, buf))))
    /\ buf' = Bytes(<<>>)
    /\ Raise("OSError")
    /\ UNCHANGED <<calls, locals>>

Report ==
    /\ pc = "print"
    /\ pc' = "done"
    /\ UNCHANGED <<disk, calls, err, locals>>

ReportFail ==
    /\ pc = "print"
    /\ \E kind \in {"ValueError", "UnicodeEncodeError", "OSError"} : Raise(kind)
    /\ UNCHANGED <<disk, calls, locals>>

\* pack_fa2 is called again, after a call that returned or raised.
Restart ==
    /\ pc \in {"done", "raised"}
    /\ runs < MaxRuns
    /\ runs' = runs + 1
    /\ prev_fs' = fs0
    /\ prev_out' = dest
    /\ prev_ok' = (pc = "done" \/ err.at = "print")
    /\ err' = NoErr
    /\ fs0' = fs
    /\ dest0' = dest
    /\ pc' = "start"
    /\ files' = <<>>
    /\ i' = 1
    /\ file_entries' = <<>>
    /\ file_data' = Bytes(<<>>)
    /\ data_offset' = Wide(0)
    /\ file_count' = Wide(0)
    /\ index_offset' = Wide(0)
    /\ header' = <<>>
    /\ index_table' = <<>>
    /\ UNCHANGED <<disk, inside, limit>>

Next ==
    \/ ListDir
    \/ ListFail
    \/ ReadFile
    \/ ReadFail
    \/ BuildHeader
    \/ BuildIndex
    \/ OpenOutput
    \/ OpenFail
    \/ WriteHeader
    \/ WriteData
    \/ WriteIndex
    \/ WriteFail
    \/ Close
    \/ CloseFail
    \/ Report
    \/ ReportFail
    \/ Restart

Spec == Init /\ [][Next]_vars

(* ---------------- the inverse reader (spec.md, sections 3 and 8) ---------- *)
U32At(s, off) ==
    <<s[off + 4] * 256 + s[off + 3], s[off + 2] * 256 + s[off + 1]>>

CStr(field) ==
    LET nul == {k \in 1..Len(field) : field[k] = 0}
    IN IF nul = {} THEN field
       ELSE SubSeq(field, 1, (CHOOSE k \in nul : \A j \in nul : k <= j) - 1)

IsCont(s, k) == k <= Len(s) /\ s[k] >= 128 /\ s[k] < 192

RECURSIVE Utf8Decode(_)
Utf8Decode(s) ==
    IF s = <<>> THEN <<>>
    ELSE LET c == s[1]
             rest(n) == Utf8Decode(SubSeq(s, n + 1, Len(s)))
         IN IF c < 128 THEN <<c>> \o rest(1)
            ELSE IF c >= 192 /\ c < 224 /\ IsCont(s, 2)
                 THEN <<(c - 192) * 64 + (s[2] - 128)>> \o rest(2)
            ELSE IF c >= 224 /\ c < 240 /\ IsCont(s, 2) /\ IsCont(s, 3)
                 THEN <<(c - 224) * 4096 + (s[2] - 128) * 64 + (s[3] - 128)>>
                      \o rest(3)
            ELSE IF c >= 240 /\ c < 248 /\ IsCont(s, 2) /\ IsCont(s, 3) /\ IsCont(s, 4)
                 THEN <<(c - 240) * 262144 + (s[2] - 128) * 4096
                        + (s[3] - 128) * 64 + (s[4] - 128)>> \o rest(4)
            ELSE <<-1>>

ReaderAlign(n) == ((n + 15) \div 16) * 16

\* The name bytes of the k-th index record, up to the first null byte.
ParseNameBytes(a, k) ==
    LET ioff == WInt(U32At(a, 8))
    IN CStr(SubSeq(a, ioff + 32 * (k - 1) + 1, ioff + 32 * (k - 1) + 15))

Parse(a) ==
    LET ioff == WInt(U32At(a, 8))
        count == WInt(U32At(a, 12))
        rec(k) == SubSeq(a, ioff + 32 * (k - 1) + 1, ioff + 32 * k)
        size(k) == WInt(U32At(rec(k), 24))
        off[k \in 1..count] ==
            IF k = 1 THEN 16 ELSE off[k - 1] + ReaderAlign(size(k - 1))
    IN [k \in 1..count |->
           [name |-> Utf8Decode(CStr(SubSeq(rec(k), 1, 15))),
            content |-> SubSeq(a, off[k] + 1, off[k] + size(k))]]

(* ---------------- what a run was given ---------------- *)
Packed == {n \in DOMAIN fs0 : fs0[n].isfile}

\* The with block has closed the file: the archive is on disk.
Written == pc \in {"print", "done"} \/ (pc = "raised" /\ err.at = "print")

\* The names in ascending order: the least one first.
RECURSIVE Ascending(_)
Ascending(S) ==
    IF S = {} THEN <<>>
    ELSE LET least == CHOOSE x \in S : \A y \in S \ {x} : StrLess(x, y)
         IN <<least>> \o Ascending(S \ {least})

SortedInput == Ascending(Packed)

Tracked(x) == x.gap = Wide(0)

Expected ==
    [k \in 1..Cardinality(Packed) |->
        [name |-> SortedInput[k], content |-> fs0[SortedInput[k]].content.b]]

ShortNames == \A n \in Packed : Len(Utf8Encode(n)) <= 14

(* C1 as stated: for any set of files with pairwise distinct names, the  *)
(* archive pack_fa2 wrote parses back, with the inverse reader, to the   *)
(* sorted input: same names, same content bytes, same order.             *)
C1_RoundTripAnyNames ==
    (Written /\ Tracked(dest.data)) => Parse(dest.data.b) = Expected

(* C1 amended: the round trip holds when every file name encodes to at   *)
(* most 14 UTF-8 bytes, the widest name the 15-byte field stores whole;  *)
(* with any names the archive parses back to as many entries, in sorted  *)
(* order, each with its content bytes, and a name of 15 encoded bytes or *)
(* more comes back as its first 14 bytes.                                *)
C1_RoundTripShortNames ==
    /\ (Written /\ Tracked(dest.data) /\ ShortNames)
           => Parse(dest.data.b) = Expected
    /\ (Written /\ Tracked(dest.data)) =>
           /\ Len(Parse(dest.data.b)) = Len(Expected)
           /\ \A k \in 1..Len(Expected) :
                 LET enc == Utf8Encode(Expected[k].name)
                 IN /\ Parse(dest.data.b)[k].content = Expected[k].content
                    /\ ParseNameBytes(dest.data.b, k) =
                          IF Len(enc) >= 15 THEN SubSeq(enc, 1, 14) ELSE enc

C1_Witness ==
    /\ Written
    /\ Packed = {NameA, Name14}
    /\ fs0[NameA].content = Hi
    /\ fs0[Name14].content = Twenty
    /\ Parse(dest.data.b) = Expected
    /\ Expected[2] = [name |-> Name14, content |-> Twenty.b]

(* ---------------- reference values, computed from the directory ---------- *)
LeastMultiple16(n) ==
    IF n[2] % 16 = 0 THEN n ELSE WAdd(<<n[1], n[2] - (n[2] % 16)>>, Wide(16))

TrueSize(k) == BLen(fs0[SortedInput[k]].content)

NumPacked == Cardinality(Packed)

RECURSIVE PaddedBefore(_)
PaddedBefore(k) ==
    IF k = 1 THEN Wide(0)
    ELSE WAdd(PaddedBefore(k - 1), LeastMultiple16(TrueSize(k - 1)))

TotalPadded == PaddedBefore(NumPacked + 1)

TrueIndexOffset == WAdd(Wide(16), TotalPadded)

Fits32(v) == WLeq(v, <<Base - 1, Base - 1>>)

Rec(k) == SubSeq(index_table, 32 * (k - 1) + 1, 32 * k)

Writing == pc \in {"write_header", "write_data", "write_index", "close"}

IndexBuilt == pc = "open" \/ Writing \/ Written

HeaderBuilt == pc = "index" \/ IndexBuilt

(* C2: in every archive written, the header's indexOffset is 16 plus the *)
(* sum of align16(size) over the packed entries, which is 16 plus the    *)
(* length of the data region written, and entryCount is the number of    *)
(* entries packed.                                                       *)
C2_HeaderCorrect ==
    /\ HeaderBuilt =>
          /\ Len(header) = 16
          /\ U32At(header, 8) = TrueIndexOffset
          /\ U32At(header, 8) = WAdd(Wide(16), BLen(file_data))
          /\ U32At(header, 12) = Wide(NumPacked)
    /\ Written =>
          /\ SubSeq(dest.data.b, 1, 16) = header
          /\ U32At(dest.data.b, 8) = TrueIndexOffset
          /\ U32At(dest.data.b, 12) = Wide(NumPacked)

C2_Witness ==
    /\ Written
    /\ Packed = {NameA, NameB}
    /\ fs0[NameA].content = Hi
    /\ fs0[NameB].content = Twenty
    /\ U32At(dest.data.b, 8) = Wide(64)
    /\ U32At(dest.data.b, 12) = Wide(2)

(* C3: every entry's data offset is a multiple of 16; the first is 16    *)
(* and each later one is the previous offset plus align16 of the         *)
(* previous size, align16(n) being the least multiple of 16 >= n; every  *)
(* entry is followed by 0 to 15 zero bytes, and at each iteration        *)
(* data_offset = 16 + len(file_data).                                    *)
C3_Alignment ==
    pc = "loop" =>
       /\ data_offset = WAdd(Wide(16), BLen(file_data))
       /\ data_offset[2] % 16 = 0
       /\ \A k \in 1..Len(file_entries) :
             LET e == file_entries[k]
                 next == IF k = Len(file_entries) THEN data_offset
                         ELSE file_entries[k + 1][4]
                 pad == WSub(next, WAdd(e[4], e[2]))
             IN /\ e[4][2] % 16 = 0
                /\ k = 1 => e[4] = Wide(16)
                /\ next = WAdd(e[4], LeastMultiple16(e[2]))
                /\ WLeq(WAdd(e[4], e[2]), next)
                /\ pad[1] = 0 /\ pad[2] <= 15
                /\ e[2][2] % 16 = 0 => next = WAdd(e[4], e[2])
                /\ Tracked(file_data) =>
                      \A j \in (WInt(e[4]) - 16 + WInt(e[2]) + 1)..(WInt(next) - 16) :
                          file_data.b[j] = 0

C3_Witness ==
    /\ pc = "loop"
    /\ Len(file_entries) = 2
    /\ file_entries[1][2] = Wide(0)
    /\ file_entries[2][4] = Wide(16)
    /\ file_entries[2][2] = Wide(20)
    /\ data_offset = Wide(48)
    /\ Len(file_data.b) = 32

(* C5: every record's name field is 15 bytes ending in a null byte: the  *)
(* first 14 encoded bytes and a null when the encoded name has 15 bytes  *)
(* or more, else the encoded name and nulls up to 15 bytes; the record   *)
(* is 32 bytes, the reserved and size fields staying in their places.    *)
C5_NameField ==
    IndexBuilt =>
       /\ Len(index_table) = 32 * Len(file_entries)
       /\ \A k \in 1..Len(file_entries) :
             LET enc == Utf8Encode(file_entries[k][1])
                 field == SubSeq(Rec(k), 1, 15)
             IN /\ Len(Rec(k)) = 32
                /\ field[15] = 0
                /\ Len(enc) >= 15 => field = SubSeq(enc, 1, 14) \o <<0>>
                /\ Len(enc) < 15 =>
                      /\ SubSeq(field, 1, Len(enc)) = enc
                      /\ \A j \in (Len(enc) + 1)..15 : field[j] = 0
                /\ SubSeq(Rec(k), 16, 24) = Zeros(9)
                /\ U32At(Rec(k), 24) = file_entries[k][2]
                /\ U32At(Rec(k), 28) = file_entries[k][3]

C5_Witness ==
    /\ pc = "open"
    /\ Len(file_entries) = 2
    /\ file_entries[1][1] = Name15
    /\ file_entries[2][1] = Name14
    /\ SubSeq(Rec(1), 1, 15) = Prefix13 \o <<195, 0>>
    /\ SubSeq(Rec(2), 1, 15) = Utf8Encode(Name14) \o <<0>>
    /\ Len(index_table) = 64

(* ---------------- a complete archive of the directory ---------------- *)
Complete(f) ==
    /\ f.exists
    /\ f.data = BCat(BCat(Bytes(header), file_data), Bytes(index_table))
    /\ Len(header) = 16
    /\ Len(index_table) = 32 * NumPacked

(* C4: whatever step of pack_fa2 fails, the destination afterwards holds *)
(* what it held before the call or a complete archive, never a partial   *)
(* one.                                                                  *)
C4_NoPartialOutput ==
    pc = "raised" => (dest = dest0 \/ Complete(dest))

(* C6: the archive is header, data region, index region, of total length *)
(* 16 + sum of align16(originalSize) + 32 * entryCount; a directory with *)
(* no files gives the 16 bytes signature, 0, 16, 0.                      *)
C6_OutputLength ==
    Written =>
       /\ dest.exists
       /\ BLen(dest.data) = WAdd(TrueIndexOffset, Wide(32 * NumPacked))
       /\ Tracked(dest.data) =>
             /\ SubSeq(dest.data.b, 1, 16) = header
             /\ SubSeq(dest.data.b, 17, 16 + Len(file_data.b)) = file_data.b
             /\ SubSeq(dest.data.b, WInt(TrueIndexOffset) + 1, Len(dest.data.b))
                   = index_table
       /\ Packed = {} =>
             dest.data = Bytes(<<70, 65, 50, 0, 0, 0, 0, 0, 16, 0, 0, 0, 0, 0, 0, 0>>)

C6_Witness ==
    /\ Written
    /\ Packed = {NameA, NameB}
    /\ fs0[NameA].content = Hi
    /\ fs0[NameB].content = Twenty
    /\ dest.data.gap = Wide(0)
    /\ Len(dest.data.b) = 128

(* C7: for the same files, every run writes the same bytes whatever      *)
(* order the directory listing has, the entries being laid out in        *)
(* ascending order of their names in the data and in the index region.   *)
C7_Deterministic ==
    /\ (Written /\ runs >= 2 /\ prev_ok /\ fs0 = prev_fs) => dest = prev_out
    /\ (pc = "loop" \/ HeaderBuilt) =>
          /\ files = SortedInput
          /\ \A k \in 1..Len(file_entries) : file_entries[k][1] = SortedInput[k]
    /\ IndexBuilt =>
          \A k \in 1..NumPacked : SubSeq(Rec(k), 1, 15) = NameField(SortedInput[k])

C7_Witness ==
    /\ Written
    /\ runs = 2
    /\ prev_ok
    /\ fs0 = prev_fs
    /\ Packed = {NameB, Name14}
    /\ fs0[NameB].content = Twenty
    /\ dest = prev_out
    /\ files = <<NameB, Name14>>

(* C8: the index region has one record per entry, the i-th record        *)
(* describing the i-th entry of the data region, with storedSize =       *)
(* originalSize = the length of that entry's content and the 9 reserved  *)
(* bytes zero.                                                           *)
C8_IndexMatchesData ==
    IndexBuilt =>
       /\ Len(index_table) = 32 * NumPacked
       /\ \A k \in 1..NumPacked :
             /\ U32At(Rec(k), 24) = TrueSize(k)
             /\ U32At(Rec(k), 28) = TrueSize(k)
             /\ SubSeq(Rec(k), 16, 24) = Zeros(9)
             /\ SubSeq(Rec(k), 1, 15) = NameField(SortedInput[k])
             /\ Tracked(file_data) =>
                   SubSeq(file_data.b, WInt(PaddedBefore(k)) + 1,
                          WInt(PaddedBefore(k)) + WInt(TrueSize(k)))
                      = fs0[SortedInput[k]].content.b

C8_Witness ==
    /\ Written
    /\ Packed = {NameA, Name16}
    /\ fs0[NameA].content = Twenty
    /\ fs0[Name16].content = Hi
    /\ U32At(Rec(1), 24) = Wide(20)
    /\ U32At(Rec(2), 28) = Wide(2)
    /\ SubSeq(file_data.b, 33, 34) = <<104, 105>>

(* C9: two distinct names of 15 encoded bytes or more that share their   *)
(* first 14 bytes raise no error of their own, and give two records      *)
(* with the same 15-byte name field, each with its own entry's sizes     *)
(* and data.                                                             *)
Collide(a, b) ==
    /\ a # b
    /\ Len(Utf8Encode(a)) >= 15
    /\ Len(Utf8Encode(b)) >= 15
    /\ SubSeq(Utf8Encode(a), 1, 14) = SubSeq(Utf8Encode(b), 1, 14)

C9_CollisionsUndetected ==
    \A a, b \in Packed :
       Collide(a, b) =>
          /\ pc = "raised" =>
                \/ err.kind \in {"OSError", "MemoryError"}
                \/ err.at = "print"
                \/ ~Fits32(TrueIndexOffset)
                \/ \E n \in Packed : ~Encodable(n)
          /\ IndexBuilt =>
                \E j, k \in 1..NumPacked :
                   /\ j # k
                   /\ file_entries[j][1] = a
                   /\ file_entries[k][1] = b
                   /\ SubSeq(Rec(j), 1, 15) = SubSeq(Rec(k), 1, 15)
                   /\ U32At(Rec(j), 24) = BLen(fs0[a].content)
                   /\ U32At(Rec(k), 24) = BLen(fs0[b].content)
                   /\ U32At(Rec(j), 28) = BLen(fs0[a].content)
                   /\ U32At(Rec(k), 28) = BLen(fs0[b].content)
                   /\ Tracked(file_data) =>
                         /\ SubSeq(file_data.b, WInt(file_entries[j][4]) - 15,
                                   WInt(file_entries[j][4]) - 16
                                      + Len(fs0[a].content.b)) = fs0[a].content.b
                         /\ SubSeq(file_data.b, WInt(file_entries[k][4]) - 15,
                                   WInt(file_entries[k][4]) - 16
                                      + Len(fs0[b].content.b)) = fs0[b].content.b

C9_Witness ==
    /\ Written
    /\ Packed = {Name15, Name16}
    /\ fs0[Name15].content = Twenty
    /\ fs0[Name16].content = Hi
    /\ SubSeq(Rec(1), 1, 15) = SubSeq(Rec(2), 1, 15)
    /\ U32At(Rec(1), 24) = Wide(20)
    /\ U32At(Rec(2), 24) = Wide(2)

(* C10: every 4-byte field written holds the true, unbounded value; when *)
(* one of them exceeds 2^32 - 1 the build raises while building the      *)
(* header or the index table, before the output file is opened, and      *)
(* writes no value reduced modulo 2^32.                                  *)
FieldsFit ==
    /\ Fits32(TrueIndexOffset)
    /\ Fits32(Wide(NumPacked))
    /\ \A k \in 1..NumPacked : Fits32(TrueSize(k))

C10_NoWrapAround ==
    /\ HeaderBuilt =>
          /\ U32At(header, 8) = TrueIndexOffset
          /\ U32At(header, 12) = Wide(NumPacked)
    /\ IndexBuilt =>
          \A k \in 1..NumPacked :
             /\ U32At(Rec(k), 24) = TrueSize(k)
             /\ U32At(Rec(k), 28) = TrueSize(k)
    /\ ~FieldsFit =>
          /\ pc \in {"start", "loop", "raised"}
          /\ pc = "raised" => err.at \in {"start", "loop"}
          /\ dest = dest0
    /\ (pc = "raised" /\ err.kind = "struct.error") => (~FieldsFit /\ dest = dest0)

C10_Witness ==
    /\ pc = "raised"
    /\ err = [kind |-> "struct.error", at |-> "loop"]
    /\ dest = NoFile
    /\ Packed = {NameA, NameB}
    /\ fs0[NameA].content = Hi
    /\ fs0[NameB].content = Huge(Base - 1, Base - 32)
    /\ Fits32(TrueSize(2))
    /\ ~Fits32(TrueIndexOffset)
    /\ header = <<>>

=============================================================================
